---- MODULE Spec2Model ----
(***************************************************************************)
(* A model of the two dynamic-programming engines of dynprog:              *)
(*   - the sequential engine  (src/dynprog/sequential.py):                 *)
(*       max_value and max_value_solution;                                 *)
(*   - the general, class-based engine (src/dynprog/classbased.py):        *)
(*       DynProg.max_value and DynProg.solve.                              *)
(* The client callbacks (transition, filter, construction and value        *)
(* functions; initial_states, neighbors, final_state) are arguments of the *)
(* engines.  They are drawn in the initial state from small catalogues     *)
(* built from the repository's own clients (subset-sum, proportional       *)
(* allocation).                                                            *)
(***************************************************************************)
EXTENDS Integers, Sequences, FiniteSets, TLC

\* ------------------------------------------------------------------------
\* Bounds of the model.
\* ------------------------------------------------------------------------
MaxInputs == 2
MaxInitialStates == 2
MaxFunctions == 2
Capacity == 2
Threshold == 2
NumStates == 3
MaxDynInitialStates == 2
MaxItems == 3
MaxItem == 3
MaxCapacity == 4
MaxStringLen == 4
NumLetters == 2
MaxAgents == 2
MaxGeneration == 4

VARIABLES
    \* arguments of the sequential engine
    inputs, initial_states, transition_functions, filter_functions,
    value_function, initial_solution, construction_functions,
    \* what the client's functions close over: the capacity of the filter
    \* functions and the valuation matrix the inputs were made from
    capacity, valuation_matrix,
    \* position and locals of the sequential engine
    pc, input_index, current_states, num_of_processed_states,
    records, current_state_records, best_final_record, path, record,
    solution,
    \* what the two calls returned or raised
    max_value_result, max_value_solution_result,
    \* the DynProg subclass: what initial_states() yields, the offsets its
    \* neighbors() follows, and its final_state
    dp_initial_states, neighbor_offsets, final_state,
    \* the name of the subclass, and the string of an LPS object
    dp_class, string,
    \* position and locals of DynProg.max_value and DynProg.solve
    dp_pc, open_states, map_state_to_value, map_state_to_previous,
    reached_final_states, dp_num_of_processed_states, opened,
    current_state_value_data, best_final_state_value_data, dp_path,
    \* what the two methods returned or raised
    dp_max_value_result, solve_result,
    \* the number of the run of the two calls on the same arguments, and
    \* what the earlier run returned
    run, earlier

seqArgs == <<inputs, initial_states, transition_functions, filter_functions,
             value_function, initial_solution, construction_functions,
             capacity, valuation_matrix>>

seqLocals == <<pc, input_index, current_states, num_of_processed_states,
               records, current_state_records, best_final_record, path,
               record, solution, max_value_result, max_value_solution_result>>

seqVars == <<seqArgs, seqLocals>>

dpArgs == <<dp_initial_states, neighbor_offsets, final_state, dp_class, string>>

dpLocals == <<dp_pc, open_states, map_state_to_value, map_state_to_previous,
              reached_final_states, dp_num_of_processed_states, opened,
              current_state_value_data, best_final_state_value_data, dp_path,
              dp_max_value_result, solve_result>>

dpVars == <<dpArgs, dpLocals>>

rerunVars == <<run, earlier>>

vars == <<seqVars, dpVars, rerunVars>>

\* ------------------------------------------------------------------------
\* Generic helpers.
\* ------------------------------------------------------------------------
SeqsUpTo(S, n) == UNION {[1..m -> S] : m \in 0..n}

Min(a, b) == IF a <= b THEN a ELSE b

RECURSIVE Flatten(_)
Flatten(ss) == IF Len(ss) = 0 THEN <<>> ELSE Head(ss) \o Flatten(Tail(ss))

\* ------------------------------------------------------------------------
\* Values: a real number or minus infinity (math.inf negated), ordered as
\* Python floats are.
\* ------------------------------------------------------------------------
Finite(n) == [inf |-> 0, n |-> n]

NegInf == [inf |-> -1, n |-> 0]

ValueLess(a, b) == a.inf < b.inf \/ (a.inf = b.inf /\ a.n < b.n)

\* A mutant of FirstMaxIndex: the first element, whatever the others are.
FirstIndex(vals) == 1

\* A mutant of FirstMaxIndex: among equal maxima the choice changes from one
\* run to the next, as an iteration order that differs between runs makes it.
MaxIndexOfRun(vals) ==
    CHOOSE i \in 1..Len(vals) :
        /\ \A j \in 1..Len(vals) : ~ValueLess(vals[i], vals[j])
        /\ IF run = 1
           THEN \A j \in 1..(i - 1) : ValueLess(vals[j], vals[i])
           ELSE \A j \in (i + 1)..Len(vals) : ValueLess(vals[j], vals[i])

\* Python's max(values): the first element no other element exceeds.
FirstMaxIndex(vals) ==
    CHOOSE i \in 1..Len(vals) :
        /\ \A j \in 1..Len(vals) : ~ValueLess(vals[i], vals[j])
        /\ \A j \in 1..(i - 1) : ValueLess(vals[j], vals[i])

\* A mutant of MaxOf: the value listed last.
LastOf(vals) == vals[Len(vals)]

MaxOf(vals) == vals[FirstMaxIndex(vals)]

\* ------------------------------------------------------------------------
\* The client callbacks of the sequential engine.
\* ------------------------------------------------------------------------
InputValues == {1, 2}

InitialStateValues == {0, 1}

TransitionCatalogue == <<"add", "skip">>

FilterCatalogue == <<"fits", "always">>

ConstructionCatalogue == <<"append", "keep">>

ValueFunctions == {"identity", "threshold"}

\* filter_functions=None
NoneFilters == <<"None">>

\* egalitarian_allocation.py: the lambdas that _transition_functions and
\* _construction_functions make, one for each agent_index, by their
\* agent_index from 0.
AgentLambdas ==
    <<"agent_index=0", "agent_index=1", "agent_index=2", "agent_index=3">>

IsAgentLambda(f) == \E k \in 1..Len(AgentLambdas) : AgentLambdas[k] = f

AgentIndexOf(f) == (CHOOSE k \in 1..Len(AgentLambdas) : AgentLambdas[k] = f) - 1

\* egalitarian_allocation.py, lines 111-123; agent_index counts from 0.
_add_input_to_agent_value(agent_values, agent_index, input) ==
    [agent_values EXCEPT ![agent_index + 1] = @ + input[agent_index + 1]]

\* A mutant of _add_input_to_bin: the bin takes the agent's value of the item,
\* not the index of the item.
_add_input_value_to_bin(bins, agent_index, input) ==
    [bins EXCEPT ![agent_index + 1] = Append(@, input[agent_index + 1])]

\* egalitarian_allocation.py, lines 137-146: item_index = input[-1].
_add_input_to_bin(bins, agent_index, input) ==
    [bins EXCEPT ![agent_index + 1] = Append(@, input[Len(input)])]

\* Line 154: min(state)
MinOfList(seq) ==
    CHOOSE x \in {seq[i] : i \in 1..Len(seq)} : \A i \in 1..Len(seq) : x <= seq[i]

\* subset_sum.py: "add", "skip"; knapsack.py, on states and inputs (weight,
\* value): "add_item", "keep_state".
ApplyTransition(f, state, input) ==
    IF f = "add" THEN state + input
    ELSE IF f = "add_item" THEN <<state[1] + input[1], state[2] + input[2]>>
    ELSE IF f = "keep_state" THEN state
    ELSE IF IsAgentLambda(f) THEN _add_input_to_agent_value(state, AgentIndexOf(f), input)
    ELSE state + 0

\* A mutant of ApplyFilter: an input that fills the capacity exactly does not
\* fit.
ApplyFilterStrictly(h, state, input) ==
    IF h = "fits" THEN state + input < capacity
    ELSE IF h = "fits_weight" THEN state[1] + input[1] < capacity
    ELSE TRUE

\* subset_sum.py: "fits", "always"; knapsack.py: "fits_weight", "always".
ApplyFilter(h, state, input) ==
    IF h = "fits" THEN state + input <= capacity
    ELSE IF h = "fits_weight" THEN state[1] + input[1] <= capacity
    ELSE TRUE

ApplyConstruction(c, sol, input) ==
    IF c = "append" THEN sol \o <<input>>
    ELSE IF IsAgentLambda(c) THEN _add_input_to_bin(sol, AgentIndexOf(c), input)
    ELSE sol

\* subset_sum.py: "identity"; knapsack.py: "total_value"; the egalitarian
\* allocation: "min"; the proportional allocation: "threshold".
ApplyValue(g, state) ==
    IF g = "identity" THEN Finite(state)
    ELSE IF g = "total_value" THEN Finite(state[2])
    ELSE IF g = "min" THEN Finite(MinOfList(state))
    ELSE IF state >= Threshold THEN Finite(state) ELSE NegInf

\* A list of n functions of a catalogue, listed from position off on.
FunctionList(cat, n, off) ==
    [k \in 1..n |-> cat[((k - 1 + off) % Len(cat)) + 1]]

\* ------------------------------------------------------------------------
\* Results of a call.
\* ------------------------------------------------------------------------
NotReturned == [kind |-> "running"]

Raised(e) == [kind |-> e]

\* ------------------------------------------------------------------------
\* sequential.py
\* ------------------------------------------------------------------------
\* A mutant of _default_filter_functions: one filter, whatever the number of
\* transition functions.
_one_default_filter(tfs) == <<"always">>

_default_filter_functions(tfs) == [k \in 1..Len(tfs) |-> "always"]

\* The filter list in force: line 42-43 and 93-94.
EffectiveFilters ==
    IF filter_functions = NoneFilters
    THEN _default_filter_functions(transition_functions)
    ELSE filter_functions

\* zip(transition_functions, filter_functions) stops at the shorter list.
ZipLength == Min(Len(transition_functions), Len(EffectiveFilters))

\* The states one transition function adds: [f(state,input) for state in
\* current_states if h(state,input)].
StatesOfTransition(k, cur, input) ==
    LET kept == SelectSeq(cur, LAMBDA s : ApplyFilter(EffectiveFilters[k], s, input))
    IN  [i \in 1..Len(kept) |-> ApplyTransition(transition_functions[k], kept[i], input)]

\* A mutant of next_states: the filters are not consulted.
next_states_unfiltered(cur, input) ==
    Flatten([k \in 1..ZipLength |->
               [i \in 1..Len(cur) |->
                  ApplyTransition(transition_functions[k], cur[i], input)]])

\* A list without the later occurrences of its elements.
RECURSIVE RemoveDuplicates(_)
RemoveDuplicates(seq) ==
    IF Len(seq) = 0 THEN <<>>
    ELSE LET rest == RemoveDuplicates(SubSeq(seq, 1, Len(seq) - 1))
             last == seq[Len(seq)]
         IN  IF \E i \in 1..Len(rest) : rest[i] = last THEN rest ELSE Append(rest, last)

\* A mutant of next_states: equal states are merged into one live entry.
next_states_merged(cur, input) ==
    RemoveDuplicates(Flatten([k \in 1..ZipLength |-> StatesOfTransition(k, cur, input)]))

next_states(cur, input) ==
    Flatten([k \in 1..ZipLength |-> StatesOfTransition(k, cur, input)])

\* A mutant of ProcessedAfter: the count is assigned, not added to.
ProcessedAssigned(count, next) == Len(next)

\* num_of_processed_states += len(next_states), lines 55 and 105.
ProcessedAfter(count, next) == count + Len(next)

\* A mutant of NoFinalStates: a single final state is taken for none.
AtMostOneFinalState(cur) == Len(cur) <= 1

\* A mutant of NoFinalStates: max_value takes final states that all have the
\* value minus infinity for no final states.
NoFinalStateAlive(cur) ==
    \/ Len(cur) = 0
    \/ /\ pc = "max_value"
       /\ \A i \in 1..Len(cur) : ApplyValue(value_function, cur[i]) = NegInf

\* len(current_states)==0, lines 58 and 109.
NoFinalStates(cur) == Len(cur) = 0

\* A mutant of InsertFirst: the index is appended to the path.
InsertLast(p, x) == Append(p, x)

\* path.insert(0, x), line 120.
InsertFirst(p, x) == <<x>> \o p

SeqInit ==
    /\ inputs \in SeqsUpTo(InputValues, MaxInputs)
    /\ initial_states \in SeqsUpTo(InitialStateValues, MaxInitialStates)
    /\ \E off \in {0, 1} :
         /\ transition_functions \in
              {FunctionList(TransitionCatalogue, n, off) : n \in 0..MaxFunctions}
         /\ filter_functions \in {NoneFilters} \cup
              {FunctionList(FilterCatalogue, n, off) : n \in 0..MaxFunctions}
         /\ construction_functions \in
              {FunctionList(ConstructionCatalogue, n, off) : n \in 0..MaxFunctions}
    /\ value_function \in ValueFunctions
    /\ initial_solution = <<>>
    /\ capacity = Capacity
    /\ valuation_matrix = <<>>
    \* max_value, lines 41-45
    /\ pc = "max_value"
    /\ input_index = 0
    /\ current_states = initial_states
    /\ num_of_processed_states = Len(initial_states)
    /\ records = <<>>
    /\ current_state_records = <<>>
    /\ best_final_record = 0
    /\ path = <<>>
    /\ record = 0
    /\ solution = <<>>
    /\ max_value_result = NotReturned
    /\ max_value_solution_result = NotReturned

\* max_value, lines 46-56: one iteration of the loop over the inputs.
MaxValueStep ==
    /\ pc = "max_value"
    /\ input_index < Len(inputs)
    /\ LET next == next_states(current_states, inputs[input_index + 1])
       IN  /\ num_of_processed_states' = ProcessedAfter(num_of_processed_states, next)
           /\ current_states' = next
    /\ input_index' = input_index + 1
    /\ UNCHANGED <<seqArgs, pc, records, current_state_records, best_final_record,
                   path, record, solution, max_value_result, max_value_solution_result>>
    /\ UNCHANGED <<dpVars, rerunVars>>

\* max_value, lines 57-60.
MaxValueReturn ==
    /\ pc = "max_value"
    /\ input_index = Len(inputs)
    /\ max_value_result' =
         IF NoFinalStates(current_states)
         THEN Raised("ValueError")
         ELSE [kind |-> "value",
               value |-> MaxOf([i \in 1..Len(current_states) |->
                                  ApplyValue(value_function, current_states[i])])]
    /\ pc' = "call_max_value_solution"
    /\ UNCHANGED <<seqArgs, input_index, current_states, num_of_processed_states,
                   records, current_state_records, best_final_record, path, record,
                   solution, max_value_solution_result>>
    /\ UNCHANGED <<dpVars, rerunVars>>

\* A mutant of StateRecord: the record keeps no link to the previous record.
StateRecordUnlinked(state, prev, transition_index) ==
    [state |-> state, prev |-> 0, transition_index |-> transition_index]

\* A StateRecord (lines 86-90); prev is the position of the previous record
\* in the list of all records made, 0 for None.
StateRecord(state, prev, transition_index) ==
    [state |-> state, prev |-> prev, transition_index |-> transition_index]

\* transition_index of the records of the initial states: None.
NoneIndex == -1

\* A mutant of RecordsOfTransition: the filter is not consulted.
RecordsOfTransitionUnfiltered(k, recs, cur, input) ==
    [i \in 1..Len(cur) |->
       StateRecord(ApplyTransition(transition_functions[k], recs[cur[i]].state, input),
                   cur[i], k - 1)]

\* The records one transition function adds, lines 98-103: the records of
\* current_state_records (positions in recs) whose state its filter accepts.
RecordsOfTransition(k, recs, cur, input) ==
    LET kept == SelectSeq(cur, LAMBDA r : ApplyFilter(EffectiveFilters[k], recs[r].state, input))
    IN  [i \in 1..Len(kept) |->
           StateRecord(ApplyTransition(transition_functions[k], recs[kept[i]].state, input),
                       kept[i], k - 1)]

next_state_records(recs, cur, input) ==
    Flatten([k \in 1..ZipLength |-> RecordsOfTransition(k, recs, cur, input)])

\* max_value_solution, lines 92-96.
MaxValueSolutionCall ==
    /\ pc = "call_max_value_solution"
    /\ records' = [i \in 1..Len(initial_states) |->
                     StateRecord(initial_states[i], 0, NoneIndex)]
    /\ current_state_records' = [i \in 1..Len(initial_states) |-> i]
    /\ num_of_processed_states' = Len(initial_states)
    /\ input_index' = 0
    /\ pc' = "max_value_solution"
    /\ UNCHANGED <<seqArgs, current_states, best_final_record, path, record,
                   solution, max_value_result, max_value_solution_result>>
    /\ UNCHANGED <<dpVars, rerunVars>>

\* max_value_solution, lines 97-106: one iteration of the loop over the inputs.
MaxValueSolutionStep ==
    /\ pc = "max_value_solution"
    /\ input_index < Len(inputs)
    /\ LET next == next_state_records(records, current_state_records,
                                      inputs[input_index + 1])
       IN  /\ records' = records \o next
           /\ current_state_records' =
                [i \in 1..Len(next) |-> Len(records) + i]
           /\ num_of_processed_states' = ProcessedAfter(num_of_processed_states, next)
    /\ input_index' = input_index + 1
    /\ UNCHANGED <<seqArgs, pc, current_states, best_final_record, path, record,
                   solution, max_value_result, max_value_solution_result>>
    /\ UNCHANGED <<dpVars, rerunVars>>

\* A mutant of BestRecord: among the records of maximal value, the one listed
\* last.
BestRecordLast(recs, cur) ==
    cur[CHOOSE i \in 1..Len(cur) :
          /\ \A j \in 1..Len(cur) :
                ~ValueLess(ApplyValue(value_function, recs[cur[i]].state),
                           ApplyValue(value_function, recs[cur[j]].state))
          /\ \A j \in (i + 1)..Len(cur) :
                ValueLess(ApplyValue(value_function, recs[cur[j]].state),
                          ApplyValue(value_function, recs[cur[i]].state))]

\* max(current_state_records, key=lambda record: value_function(record.state))
BestRecord(recs, cur) ==
    cur[FirstMaxIndex([i \in 1..Len(cur) |->
                         ApplyValue(value_function, recs[cur[i]].state)])]

\* max_value_solution, lines 107-118.
MaxValueSolutionBest ==
    /\ pc = "max_value_solution"
    /\ input_index = Len(inputs)
    /\ IF NoFinalStates(current_state_records)
       THEN /\ max_value_solution_result' = Raised("ValueError")
            /\ pc' = "done"
            /\ UNCHANGED <<best_final_record, path, record>>
       ELSE /\ best_final_record' = BestRecord(records, current_state_records)
            /\ path' = <<>>
            /\ record' = best_final_record'
            /\ pc' = "path"
            /\ UNCHANGED max_value_solution_result
    /\ UNCHANGED <<seqArgs, input_index, current_states, num_of_processed_states,
                   records, current_state_records, solution, max_value_result>>
    /\ UNCHANGED <<dpVars, rerunVars>>

\* max_value_solution, lines 119-121: one iteration of the walk back.
MaxValueSolutionPath ==
    /\ pc = "path"
    /\ records[record].prev # 0
    /\ path' = InsertFirst(path, records[record].transition_index)
    /\ record' = records[record].prev
    /\ UNCHANGED <<seqArgs, pc, input_index, current_states, num_of_processed_states,
                   records, current_state_records, best_final_record, solution,
                   max_value_result, max_value_solution_result>>
    /\ UNCHANGED <<dpVars, rerunVars>>

\* max_value_solution, lines 119 (the loop ends) and 122-125.
MaxValueSolutionPathEnd ==
    /\ pc = "path"
    /\ records[record].prev = 0
    /\ solution' = initial_solution
    /\ input_index' = 0
    /\ pc' = "construct"
    /\ UNCHANGED <<seqArgs, current_states, num_of_processed_states, records,
                   current_state_records, best_final_record, path, record,
                   max_value_result, max_value_solution_result>>
    /\ UNCHANGED <<dpVars, rerunVars>>

\* max_value_solution, lines 126-129: one iteration of the construction.  A
\* list indexed past its end raises IndexError.
MaxValueSolutionConstruct ==
    /\ pc = "construct"
    /\ input_index < Len(inputs)
    /\ IF input_index + 1 > Len(path)
       THEN /\ max_value_solution_result' = Raised("IndexError")
            /\ pc' = "done"
            /\ UNCHANGED <<solution, input_index>>
       ELSE LET transition_index == path[input_index + 1]
            IN  IF transition_index + 1 > Len(construction_functions)
                THEN /\ max_value_solution_result' = Raised("IndexError")
                     /\ pc' = "done"
                     /\ UNCHANGED <<solution, input_index>>
                ELSE /\ solution' = ApplyConstruction(
                                        construction_functions[transition_index + 1],
                                        solution, inputs[input_index + 1])
                     /\ input_index' = input_index + 1
                     /\ UNCHANGED <<pc, max_value_solution_result>>
    /\ UNCHANGED <<seqArgs, current_states, num_of_processed_states, records,
                   current_state_records, best_final_record, path, record,
                   max_value_result>>
    /\ UNCHANGED <<dpVars, rerunVars>>

\* max_value_solution, line 131.
MaxValueSolutionReturn ==
    /\ pc = "construct"
    /\ input_index = Len(inputs)
    /\ max_value_solution_result' =
         [kind |-> "value",
          best_final_state |-> records[best_final_record].state,
          best_final_state_value |->
              ApplyValue(value_function, records[best_final_record].state),
          solution |-> solution,
          num_of_processed_states |-> num_of_processed_states]
    /\ pc' = "done"
    /\ UNCHANGED <<seqArgs, input_index, current_states, num_of_processed_states,
                   records, current_state_records, best_final_record, path, record,
                   solution, max_value_result>>
    /\ UNCHANGED <<dpVars, rerunVars>>

SeqNext ==
    \/ MaxValueStep
    \/ MaxValueReturn
    \/ MaxValueSolutionCall
    \/ MaxValueSolutionStep
    \/ MaxValueSolutionBest
    \/ MaxValueSolutionPath
    \/ MaxValueSolutionPathEnd
    \/ MaxValueSolutionConstruct
    \/ MaxValueSolutionReturn

\* ------------------------------------------------------------------------
\* classbased.py: the DynProg subclass.  Its states are 1..NumStates; a
\* neighbor of a state lies one of neighbor_offsets away, is worth one more,
\* and carries the list of the states passed.
\* ------------------------------------------------------------------------
States == 1..NumStates

InitialValues == {Finite(0), Finite(2)}

NeighborOffsets ==
    {<<>>, <<1>>, <<-1>>, <<1, 2>>, <<2, 1>>, <<1, -1>>, <<-1, 2>>}

\* The data max_value passes to neighbors: None.
NoneData == <<0>>

\* map_state_to_previous[state]=None
NoPrevious == <<>>

ValuePlus(v, k) == IF v = NegInf THEN NegInf ELSE Finite(v.n + k)

\* What initial_states() may yield for one state.
InitialTriples == {<<st, v, <<st>>>> : st \in States, v \in InitialValues}

\* classbased.py, lines 130-146: class LPS.  A letter of the string is
\* written as its number in the alphabet (a is 1, b is 2, ...), the string
\* and the data as the list of their letters; the state (i,j) holds the
\* indices of Python, from 0, so that string[i-1] and string[j] of the code
\* are string[i] and string[j+1] here.
lenstr == Len(string)

\* Line 140: the condition of "add two letters to the palyndrome".
AddsTwoLetters(state) ==
    /\ state[1] > 0
    /\ state[2] < lenstr
    /\ string[state[1]] = string[state[2] + 1]

\* Lines 135-137.
LPS_initial_states ==
    [k \in 1..lenstr |-> << <<k - 1, k>>, Finite(1), <<string[k]>> >>]
    \o [k \in 1..lenstr |-> << <<k - 1, k - 1>>, Finite(0), <<>> >>]

\* Lines 138-146.
LPS_neighbors(state, value, data) ==
    LET i == state[1]
        j == state[2]
    IN  IF AddsTwoLetters(state)
        THEN << << <<i - 1, j + 1>>, ValuePlus(value, 2),
                   <<string[i]>> \o data \o <<string[j + 1]>> >> >>
        ELSE (IF i > 0 THEN << << <<i - 1, j>>, value, data >> >> ELSE <<>>)
             \o (IF j < lenstr THEN << << <<i, j + 1>>, value, data >> >> ELSE <<>>)

\* Line 141 with the data None that max_value passes (line 59): str + None
\* raises TypeError.
NeighborsRaiseTypeError(state, data) ==
    /\ dp_class = "LPS"
    /\ data = NoneData
    /\ AddsTwoLetters(state)

neighbors(state, value, data) ==
    IF dp_class = "LPS" THEN LPS_neighbors(state, value, data)
    ELSE
    LET targets == SelectSeq([i \in 1..Len(neighbor_offsets) |-> state + neighbor_offsets[i]],
                             LAMBDA t : t \in States)
    IN  [i \in 1..Len(targets) |->
           <<targets[i], ValuePlus(value, 1),
             IF data = NoneData THEN NoneData ELSE Append(data, targets[i])>>]

\* def final_states(self): yield self.final_state
final_states == <<final_state>>

is_final_state(state) == state = final_state

\* The dictionary a loop of d[key]=value over the pairs leaves: the last
\* value of each key.
DictOf(pairs) ==
    [k \in {pairs[i][1] : i \in 1..Len(pairs)} |->
       pairs[CHOOSE i \in 1..Len(pairs) :
                /\ pairs[i][1] = k
                /\ \A j \in (i + 1)..Len(pairs) : pairs[j][1] # k][2]]

\* A mutant of MaxValueVisit: the value of a tuple for a recorded state is
\* recorded whether it is greater or not.
RECURSIVE MaxValueVisitOverwriting(_, _)
MaxValueVisitOverwriting(nbrs, r) ==
    IF Len(nbrs) = 0 THEN r
    ELSE LET next_state == Head(nbrs)[1]
             next_value == Head(nbrs)[2]
         IN  MaxValueVisitOverwriting(Tail(nbrs),
               IF next_state \in DOMAIN r.map
               THEN [r EXCEPT !.map[next_state] = next_value]
               ELSE [r EXCEPT !.open = Append(r.open, next_state)])

\* DynProg.max_value, lines 59-65: the neighbors in turn.  r is the
\* dictionary and the worklist so far.
RECURSIVE MaxValueVisit(_, _)
MaxValueVisit(nbrs, r) ==
    IF Len(nbrs) = 0 THEN r
    ELSE LET next_state == Head(nbrs)[1]
             next_value == Head(nbrs)[2]
         IN  MaxValueVisit(Tail(nbrs),
               IF next_state \in DOMAIN r.map
               THEN IF ValueLess(r.map[next_state], next_value)
                    THEN [r EXCEPT !.map[next_state] = next_value]
                    ELSE r
               ELSE [r EXCEPT !.open = Append(r.open, next_state)])

\* DynProg.max_value, lines 47-53.
DpInit ==
    /\ dp_initial_states \in SeqsUpTo(InitialTriples, MaxDynInitialStates)
    /\ neighbor_offsets \in NeighborOffsets
    /\ final_state \in States
    /\ dp_class = "Walk"
    /\ string = <<>>
    /\ dp_pc = "max_value"
    /\ open_states = [i \in 1..Len(dp_initial_states) |-> dp_initial_states[i][1]]
    /\ map_state_to_value = DictOf(dp_initial_states)
    /\ dp_num_of_processed_states = 0
    /\ opened = <<>>
    /\ map_state_to_previous = <<>>
    /\ reached_final_states = <<>>
    /\ current_state_value_data = <<>>
    /\ best_final_state_value_data = <<>>
    /\ dp_path = <<>>
    /\ dp_max_value_result = NotReturned
    /\ solve_result = NotReturned

\* DynProg.max_value, lines 54-65: one iteration of the loop over the
\* worklist.  Reading the value of a state the dictionary lacks raises
\* KeyError (line 56); neighbors may raise on the data None (line 59).
DynProgMaxValueOpen ==
    /\ dp_pc = "max_value"
    /\ Len(open_states) > 0
    /\ LET current_state == Head(open_states)
       IN  IF current_state \notin DOMAIN map_state_to_value
           THEN /\ open_states' = Tail(open_states)
                /\ dp_max_value_result' = Raised("KeyError")
                /\ dp_pc' = "call_solve"
                /\ UNCHANGED <<map_state_to_value, dp_num_of_processed_states, opened>>
           ELSE IF NeighborsRaiseTypeError(current_state, NoneData)
           THEN /\ open_states' = Tail(open_states)
                /\ dp_num_of_processed_states' = dp_num_of_processed_states + 1
                /\ opened' = Append(opened, current_state)
                /\ dp_max_value_result' = Raised("TypeError")
                /\ dp_pc' = "call_solve"
                /\ UNCHANGED map_state_to_value
           ELSE LET current_value == map_state_to_value[current_state]
                    r == MaxValueVisit(neighbors(current_state, current_value, NoneData),
                                       [map |-> map_state_to_value,
                                        open |-> Tail(open_states)])
                IN  /\ open_states' = r.open
                    /\ map_state_to_value' = r.map
                    /\ dp_num_of_processed_states' = dp_num_of_processed_states + 1
                    /\ opened' = Append(opened, current_state)
                    /\ UNCHANGED <<dp_pc, dp_max_value_result>>
    /\ UNCHANGED <<dpArgs, map_state_to_previous, reached_final_states,
                   current_state_value_data, best_final_state_value_data, dp_path,
                   solve_result>>
    /\ UNCHANGED <<seqVars, rerunVars>>

\* DynProg.max_value, lines 66-67.
DynProgMaxValueReturn ==
    /\ dp_pc = "max_value"
    /\ Len(open_states) = 0
    /\ dp_max_value_result' =
         IF \E i \in 1..Len(final_states) : final_states[i] \notin DOMAIN map_state_to_value
         THEN Raised("KeyError")
         ELSE IF Len(final_states) = 0
         THEN Raised("ValueError")
         ELSE [kind |-> "value",
               value |-> MaxOf([i \in 1..Len(final_states) |->
                                  map_state_to_value[final_states[i]]])]
    /\ dp_pc' = "call_solve"
    /\ UNCHANGED <<dpArgs, open_states, map_state_to_value, map_state_to_previous,
                   reached_final_states, dp_num_of_processed_states, opened,
                   current_state_value_data, best_final_state_value_data, dp_path,
                   solve_result>>
    /\ UNCHANGED <<seqVars, rerunVars>>

\* DynProg.solve, lines 71-81.
SolveCall ==
    /\ dp_pc = "call_solve"
    /\ open_states' = dp_initial_states
    /\ map_state_to_previous' =
         [k \in {dp_initial_states[i][1] : i \in 1..Len(dp_initial_states)} |-> NoPrevious]
    /\ map_state_to_value' = DictOf(dp_initial_states)
    /\ reached_final_states' = <<>>
    /\ dp_num_of_processed_states' = 0
    /\ opened' = <<>>
    /\ dp_pc' = "solve"
    /\ UNCHANGED <<dpArgs, current_state_value_data, best_final_state_value_data,
                   dp_path, dp_max_value_result, solve_result>>
    /\ UNCHANGED <<seqVars, rerunVars>>

\* A mutant of SolveVisit: a tuple is skipped when the worklist holds the same
\* tuple, data included, not when its state was discovered before.
RECURSIVE SolveVisitByTuple(_, _, _)
SolveVisitByTuple(nbrs, current, r) ==
    IF Len(nbrs) = 0 THEN r
    ELSE LET next_state == Head(nbrs)[1]
         IN  SolveVisitByTuple(Tail(nbrs), current,
               IF \E i \in 1..Len(r.open) : r.open[i] = Head(nbrs)
               THEN r
               ELSE [open |-> Append(r.open, Head(nbrs)),
                     previous |-> (next_state :> current) @@ r.previous])

\* A mutant of SolveVisit: a newly discovered state gets no previous triple.
RECURSIVE SolveVisitWithoutPrevious(_, _, _)
SolveVisitWithoutPrevious(nbrs, current, r) ==
    IF Len(nbrs) = 0 THEN r
    ELSE LET next_state == Head(nbrs)[1]
         IN  SolveVisitWithoutPrevious(Tail(nbrs), current,
               IF next_state \in DOMAIN r.previous
               THEN r
               ELSE [open |-> Append(r.open, Head(nbrs)),
                     previous |-> (next_state :> NoPrevious) @@ r.previous])

\* A mutant of SolveVisit: a tuple for a state already discovered takes over
\* the state's previous triple.
RECURSIVE SolveVisitOverwriting(_, _, _)
SolveVisitOverwriting(nbrs, current, r) ==
    IF Len(nbrs) = 0 THEN r
    ELSE LET next_state == Head(nbrs)[1]
         IN  SolveVisitOverwriting(Tail(nbrs), current,
               IF next_state \in DOMAIN r.previous
               THEN [r EXCEPT !.previous[next_state] = current]
               ELSE [open |-> Append(r.open, Head(nbrs)),
                     previous |-> (next_state :> current) @@ r.previous])

\* DynProg.solve, lines 93-98: the neighbors in turn.  r is the dictionary
\* of the previous triples and the worklist so far.
RECURSIVE SolveVisit(_, _, _)
SolveVisit(nbrs, current, r) ==
    IF Len(nbrs) = 0 THEN r
    ELSE LET next_state == Head(nbrs)[1]
         IN  SolveVisit(Tail(nbrs), current,
               IF next_state \in DOMAIN r.previous
               THEN r
               ELSE [open |-> Append(r.open, Head(nbrs)),
                     previous |-> (next_state :> current) @@ r.previous])

\* DynProg.solve, lines 86-98: one iteration of the loop over the worklist.
SolveOpen ==
    /\ dp_pc = "solve"
    /\ Len(open_states) > 0
    /\ LET current == Head(open_states)
           current_state == current[1]
           r == SolveVisit(neighbors(current[1], current[2], current[3]), current,
                           [open |-> Tail(open_states),
                            previous |-> map_state_to_previous])
       IN  /\ dp_num_of_processed_states' = dp_num_of_processed_states + 1
           /\ opened' = Append(opened, current_state)
           /\ reached_final_states' =
                IF is_final_state(current_state)
                THEN Append(reached_final_states, current)
                ELSE reached_final_states
           /\ open_states' = r.open
           /\ map_state_to_previous' = r.previous
    /\ UNCHANGED <<dpArgs, dp_pc, map_state_to_value, current_state_value_data,
                   best_final_state_value_data, dp_path, dp_max_value_result,
                   solve_result>>
    /\ UNCHANGED <<seqVars, rerunVars>>

\* DynProg.solve, lines 83-85 and 100-103.  max() of an empty list raises
\* ValueError.
SolveBest ==
    /\ dp_pc = "solve"
    /\ Len(open_states) = 0
    /\ IF Len(reached_final_states) = 0
       THEN /\ solve_result' = Raised("ValueError")
            /\ dp_pc' = "done"
            /\ UNCHANGED <<best_final_state_value_data, current_state_value_data, dp_path>>
       ELSE /\ best_final_state_value_data' =
                 reached_final_states[
                    FirstMaxIndex([i \in 1..Len(reached_final_states) |->
                                     reached_final_states[i][2]])]
            /\ current_state_value_data' = best_final_state_value_data'
            /\ dp_path' = <<>>
            /\ dp_pc' = "solve_path"
            /\ UNCHANGED solve_result
    /\ UNCHANGED <<dpArgs, open_states, map_state_to_value, map_state_to_previous,
                   reached_final_states, dp_num_of_processed_states, opened,
                   dp_max_value_result>>
    /\ UNCHANGED <<seqVars, rerunVars>>

\* DynProg.solve, lines 104-115: one iteration of the walk along the
\* previous triples; at a state without one, the method returns.
SolvePath ==
    /\ dp_pc = "solve_path"
    /\ LET current_state == current_state_value_data[1]
           previous == map_state_to_previous[current_state]
       IN  /\ dp_path' = <<current_state>> \o dp_path
           /\ IF previous = NoPrevious
              THEN /\ solve_result' =
                        [kind |-> "value",
                         best_final_state_value_data |-> best_final_state_value_data]
                   /\ dp_pc' = "done"
                   /\ UNCHANGED current_state_value_data
              ELSE /\ current_state_value_data' = previous
                   /\ UNCHANGED <<dp_pc, solve_result>>
    /\ UNCHANGED <<dpArgs, open_states, map_state_to_value, map_state_to_previous,
                   reached_final_states, dp_num_of_processed_states, opened,
                   best_final_state_value_data, dp_max_value_result>>
    /\ UNCHANGED <<seqVars, rerunVars>>

DpNext ==
    \/ DynProgMaxValueOpen
    \/ DynProgMaxValueReturn
    \/ SolveCall
    \/ SolveOpen
    \/ SolveBest
    \/ SolvePath

\* The general engine is not called.
DpIdle ==
    /\ dp_initial_states = <<>>
    /\ neighbor_offsets = <<>>
    /\ final_state = 0
    /\ dp_class = "Walk"
    /\ string = <<>>
    /\ dp_pc = "idle"
    /\ open_states = <<>>
    /\ map_state_to_value = <<>>
    /\ map_state_to_previous = <<>>
    /\ reached_final_states = <<>>
    /\ dp_num_of_processed_states = 0
    /\ opened = <<>>
    /\ current_state_value_data = <<>>
    /\ best_final_state_value_data = <<>>
    /\ dp_path = <<>>
    /\ dp_max_value_result = NotReturned
    /\ solve_result = NotReturned

\* The sequential engine is not called.
SeqIdle ==
    /\ inputs = <<>>
    /\ initial_states = <<>>
    /\ transition_functions = <<>>
    /\ filter_functions = NoneFilters
    /\ construction_functions = <<>>
    /\ value_function = "identity"
    /\ initial_solution = <<>>
    /\ capacity = Capacity
    /\ valuation_matrix = <<>>
    /\ pc = "idle"
    /\ input_index = 0
    /\ current_states = <<>>
    /\ num_of_processed_states = 0
    /\ records = <<>>
    /\ current_state_records = <<>>
    /\ best_final_record = 0
    /\ path = <<>>
    /\ record = 0
    /\ solution = <<>>
    /\ max_value_result = NotReturned
    /\ max_value_solution_result = NotReturned

\* The first run of the calls: nothing was returned earlier.
NoEarlier == <<>>

FirstRun ==
    /\ run = 1
    /\ earlier = NoEarlier

\* sequential.py: max_value, then max_value_solution, on the same arguments.
Init == SeqInit /\ DpIdle /\ FirstRun

Spec == Init /\ [][SeqNext]_vars

\* The lists that hold the elements of seq in some order.
Reorderings(seq) ==
    {[i \in 1..Len(seq) |-> seq[p[i]]] : p \in Permutations(1..Len(seq))}

\* max_value, lines 46-56, with the pairs (state, transition function) of
\* the generation expanded in any order, by one worker or by several: the
\* next generation is complete before the loop goes on, and lists the
\* results in the order the expansions ended.  Generations of more than
\* MaxGeneration states are not followed.
AnyOrderStep ==
    /\ pc = "max_value"
    /\ input_index < Len(inputs)
    /\ Len(next_states(current_states, inputs[input_index + 1])) <= MaxGeneration
    /\ \E next \in Reorderings(next_states(current_states, inputs[input_index + 1])) :
          /\ num_of_processed_states' = ProcessedAfter(num_of_processed_states, next)
          /\ current_states' = next
    /\ input_index' = input_index + 1
    /\ UNCHANGED <<seqArgs, pc, records, current_state_records, best_final_record,
                   path, record, solution, max_value_result, max_value_solution_result>>
    /\ UNCHANGED <<dpVars, rerunVars>>

AnyOrderNext ==
    \/ AnyOrderStep
    \/ MaxValueReturn

\* sequential.py: max_value with the expansions of a generation in any order.
AnyOrderSpec == Init /\ [][AnyOrderNext]_vars

\* classbased.py: max_value, then solve, of the same DynProg object.
DpSpecInit == DpInit /\ SeqIdle /\ FirstRun

DpSpec == DpSpecInit /\ [][DpNext]_vars

\* The two methods run to their end: the interpreter keeps taking steps.
DpFairSpec == DpSpec /\ WF_vars(DpNext)

\* A DynProg subclass whose initial_states() yields every state once, in
\* some order: the traversal discovers no state, it only revisits.
AllStatesInitial ==
    {triples \in [1..NumStates -> InitialTriples] :
        \A i, j \in 1..NumStates : i # j => triples[i][1] # triples[j][1]}

\* DynProg.max_value, lines 47-53, on such an object.
SeededInit ==
    /\ dp_initial_states \in AllStatesInitial
    /\ neighbor_offsets \in NeighborOffsets
    /\ final_state \in States
    /\ dp_class = "Walk"
    /\ string = <<>>
    /\ dp_pc = "max_value"
    /\ open_states = [i \in 1..Len(dp_initial_states) |-> dp_initial_states[i][1]]
    /\ map_state_to_value = DictOf(dp_initial_states)
    /\ dp_num_of_processed_states = 0
    /\ opened = <<>>
    /\ map_state_to_previous = <<>>
    /\ reached_final_states = <<>>
    /\ current_state_value_data = <<>>
    /\ best_final_state_value_data = <<>>
    /\ dp_path = <<>>
    /\ dp_max_value_result = NotReturned
    /\ solve_result = NotReturned

SeededSpecInit == SeededInit /\ SeqIdle /\ FirstRun

SeededSpec == SeededSpecInit /\ [][DpNext]_vars

\* ------------------------------------------------------------------------
\* The client of utilitarian_proportional_allocation.py, lines 63-67: what it
\* makes of the tuple max_value_solution returned.
\* ------------------------------------------------------------------------
utilitarian_proportional_allocation(r) ==
    IF r.kind # "value" THEN r
    ELSE IF r.best_final_state_value = NegInf
    THEN Raised("ValueError: No proportional allocation")
    ELSE [kind |-> "value", best_value |-> r.best_final_state_value,
          best_solution |-> r.solution]

\* ------------------------------------------------------------------------
\* The two calls made a second time.
\* ------------------------------------------------------------------------

\* max_value and max_value_solution are called again with the arguments of
\* the first run: the locals are those of a new call (lines 41-45).
SeqRerun ==
    /\ pc = "done"
    /\ run = 1
    /\ run' = 2
    /\ earlier' = [inputs |-> "same",
                   max_value_result |-> max_value_result,
                   max_value_solution_result |-> max_value_solution_result,
                   path |-> path]
    /\ pc' = "max_value"
    /\ input_index' = 0
    /\ current_states' = initial_states
    /\ num_of_processed_states' = Len(initial_states)
    /\ records' = <<>>
    /\ current_state_records' = <<>>
    /\ best_final_record' = 0
    /\ path' = <<>>
    /\ record' = 0
    /\ solution' = <<>>
    /\ max_value_result' = NotReturned
    /\ max_value_solution_result' = NotReturned
    /\ UNCHANGED <<seqArgs, dpVars>>

\* The caller's list of n filters lambda state,input: True.
AlwaysTrueFilters(n) == [k \in 1..n |-> "always"]

\* max_value and max_value_solution, first called with filter_functions=None,
\* are called again with one always-true filter for each transition function
\* and the other arguments of the first run.
SeqRerunExplicitFilters ==
    /\ pc = "done"
    /\ run = 1
    /\ filter_functions = NoneFilters
    /\ run' = 2
    /\ earlier' = [inputs |-> "explicit filters",
                   max_value_result |-> max_value_result,
                   max_value_solution_result |-> max_value_solution_result,
                   path |-> path]
    /\ filter_functions' = AlwaysTrueFilters(Len(transition_functions))
    /\ pc' = "max_value"
    /\ input_index' = 0
    /\ current_states' = initial_states
    /\ num_of_processed_states' = Len(initial_states)
    /\ records' = <<>>
    /\ current_state_records' = <<>>
    /\ best_final_record' = 0
    /\ path' = <<>>
    /\ record' = 0
    /\ solution' = <<>>
    /\ max_value_result' = NotReturned
    /\ max_value_solution_result' = NotReturned
    /\ UNCHANGED <<inputs, initial_states, transition_functions, value_function,
                   initial_solution, construction_functions, capacity,
                   valuation_matrix, dpVars>>

\* The locals of a new call of DynProg.max_value (lines 47-53) on an object
\* whose initial_states() yields triples.
DynProgMaxValueCall(triples) ==
    /\ dp_pc' = "max_value"
    /\ open_states' = [i \in 1..Len(triples) |-> triples[i][1]]
    /\ map_state_to_value' = DictOf(triples)
    /\ dp_num_of_processed_states' = 0
    /\ opened' = <<>>
    /\ map_state_to_previous' = <<>>
    /\ reached_final_states' = <<>>
    /\ current_state_value_data' = <<>>
    /\ best_final_state_value_data' = <<>>
    /\ dp_path' = <<>>
    /\ dp_max_value_result' = NotReturned
    /\ solve_result' = NotReturned

\* What the run that ends here returned.
DpReturned(kind) ==
    [inputs |-> kind,
     dp_max_value_result |-> dp_max_value_result,
     solve_result |-> solve_result,
     dp_path |-> dp_path,
     opened |-> opened]

\* max_value and solve are called again on the same object.
DpRerun ==
    /\ dp_pc = "done"
    /\ run = 1
    /\ run' = 2
    /\ earlier' = DpReturned("same")
    /\ DynProgMaxValueCall(dp_initial_states)
    /\ UNCHANGED <<dpArgs, seqVars>>

\* The triples with another data payload: the list of the states passed
\* does not hold the initial state.
OtherData(triples) ==
    [i \in 1..Len(triples) |-> <<triples[i][1], triples[i][2], <<>>>>]

\* max_value and solve are called on an object whose initial_states() yields
\* the same states and values, in the same order, with the other payload.
DpRerunOtherData ==
    /\ dp_pc = "done"
    /\ run = 1
    /\ run' = 2
    /\ earlier' = DpReturned("other data")
    /\ dp_initial_states' = OtherData(dp_initial_states)
    /\ DynProgMaxValueCall(dp_initial_states')
    /\ UNCHANGED <<neighbor_offsets, final_state, dp_class, string, seqVars>>

RerunInit == Init \/ DpSpecInit

RerunNext ==
    \/ SeqNext
    \/ DpNext
    \/ SeqRerun
    \/ SeqRerunExplicitFilters
    \/ DpRerun
    \/ DpRerunOtherData

\* Either engine, run twice.
RerunSpec == RerunInit /\ [][RerunNext]_vars

\* ------------------------------------------------------------------------
\* The clients of the sequential engine (src/examples).
\* ------------------------------------------------------------------------

\* The locals at the entry of max_value, lines 41-45.
MaxValueCall ==
    /\ pc = "max_value"
    /\ input_index = 0
    /\ current_states = initial_states
    /\ num_of_processed_states = Len(initial_states)
    /\ records = <<>>
    /\ current_state_records = <<>>
    /\ best_final_record = 0
    /\ path = <<>>
    /\ record = 0
    /\ solution = <<>>
    /\ max_value_result = NotReturned
    /\ max_value_solution_result = NotReturned

\* subset_sum.py: the inputs of the last doctest of max_value.
DoctestInputs == <<100, 200, 400, 700, 1100, 1600, 2200, 2900, 3700>>

DoctestCapacity == 4005

\* The lists of at most MaxItems positive integers up to MaxItem, and the
\* doctest's list.
SubsetSumInputs == SeqsUpTo(1..MaxItem, MaxItems) \cup {DoctestInputs}

SubsetSumCapacities == (0..MaxCapacity) \cup {DoctestCapacity}

\* subset_sum.py, max_value(inputs, capacity) and max_value_solution(inputs,
\* capacity): the arguments they pass to the engine (lines 29-35, 53-61,
\* 67-87).
SubsetSumInit ==
    /\ inputs \in SubsetSumInputs
    /\ capacity \in SubsetSumCapacities
    /\ valuation_matrix = <<>>
    /\ initial_states = <<0>>
    /\ transition_functions = <<"add", "skip">>
    /\ value_function = "identity"
    /\ initial_solution = <<>>
    /\ construction_functions = <<"append", "keep">>
    /\ filter_functions = <<"fits", "always">>
    /\ MaxValueCall

SubsetSumSpecInit == SubsetSumInit /\ DpIdle /\ FirstRun

SubsetSumSpec == SubsetSumSpecInit /\ [][SeqNext]_vars

\* knapsack.py: the items (weight, value) and the capacities of the doctests.
KnapsackItems == {<<3, 10>>, <<5, 20>>, <<3, 20>>, <<5, 10>>}

KnapsackCapacities == {2, 4, 6, 8}

\* SequentialDynamicProgram.max_value(inputs) and max_value_solution(inputs):
\* the engine is called with what the methods of the object return.
SequentialDynamicProgramCall(dp) ==
    /\ initial_states = dp.initial_states
    /\ transition_functions = dp.transition_functions
    /\ value_function = dp.value_function
    /\ initial_solution = dp.initial_solution
    /\ construction_functions = dp.construction_functions
    /\ filter_functions = dp.filter_functions
    /\ MaxValueCall

\* knapsack.py, lines 64-96.
KnapsackDP ==
    [initial_states |-> << <<0, 0>> >>,
     initial_solution |-> <<>>,
     transition_functions |-> <<"add_item", "keep_state">>,
     construction_functions |-> <<"append", "keep">>,
     value_function |-> "total_value",
     filter_functions |-> <<"fits_weight", "always">>]

\* knapsack.py, max_value(weights, values, capacity) and max_value_solution:
\* KnapsackDP(capacity) is run on inputs=zip(weights,values).
KnapsackInit ==
    /\ inputs \in SeqsUpTo(KnapsackItems, MaxInputs)
    /\ capacity \in KnapsackCapacities
    /\ valuation_matrix = <<>>
    /\ SequentialDynamicProgramCall(KnapsackDP)

KnapsackSpecInit == KnapsackInit /\ DpIdle /\ FirstRun

KnapsackSpec == KnapsackSpecInit /\ [][SeqNext]_vars

\* egalitarian_allocation.py: the valuation matrices, valuation_matrix[i][j]
\* the value of agent i to item j.  DoctestMatrix is that of lines 25 and 50.
DoctestMatrix == << <<11, 22, 33, 44>>, <<44, 33, 22, 11>> >>

ValuationMatrices ==
    UNION {[1..n -> [1..m -> InputValues]] : n \in 1..MaxAgents, m \in 0..MaxItems}
    \cup {DoctestMatrix}

\* egalitarian_allocation.py, lines 91-97: the value vector of each item, the
\* index of the item (from 0) last.
_items_as_value_vectors(matrix) ==
    LET num_of_agents == Len(matrix)
        num_of_items == Len(matrix[1])
    IN  [item \in 1..num_of_items |->
           [agent \in 1..num_of_agents |-> matrix[agent][item]] \o <<item - 1>>]

\* Lines 101-103: the set {zero_values}, iterated as one state.
_initial_states(num_of_agents) == << [k \in 1..num_of_agents |-> 0] >>

\* Lines 105-107.
_initial_solution(num_of_agents) == [k \in 1..num_of_agents |-> <<>>]

\* Lines 124-134 and 147-151: one lambda for each agent.
_transition_functions(num_of_agents) == SubSeq(AgentLambdas, 1, num_of_agents)

_construction_functions(num_of_agents) == SubSeq(AgentLambdas, 1, num_of_agents)

\* egalitarian_value (lines 33-40) and egalitarian_allocation (lines 55-65):
\* the calls of dynprog.sequential.max_value and max_value_solution.
EgalitarianInit ==
    /\ valuation_matrix \in ValuationMatrices
    /\ capacity = Capacity
    /\ inputs = _items_as_value_vectors(valuation_matrix)
    /\ initial_states = _initial_states(Len(valuation_matrix))
    /\ transition_functions = _transition_functions(Len(valuation_matrix))
    /\ value_function = "min"
    /\ initial_solution = _initial_solution(Len(valuation_matrix))
    /\ construction_functions = _construction_functions(Len(valuation_matrix))
    /\ filter_functions = NoneFilters
    /\ MaxValueCall

EgalitarianSpecInit == EgalitarianInit /\ DpIdle /\ FirstRun

EgalitarianSpec == EgalitarianSpecInit /\ [][SeqNext]_vars

\* egalitarian_allocation, line 66: return (best_value,best_solution)
egalitarian_allocation(r) == <<r.best_final_state_value, r.solution>>

\* ------------------------------------------------------------------------
\* The client of the general engine: the longest palindromic subsequence.
\* ------------------------------------------------------------------------
Letters == 1..NumLetters

\* "abcdba"
DoctestString == <<1, 2, 3, 4, 2, 1>>

\* The strings: the non-empty ones are what the examples run on.
LpsStrings == (SeqsUpTo(Letters, MaxStringLen) \ {<<>>}) \cup {DoctestString}

\* LPS(string).max_value(): LPS.__init__ (classbased.py, lines 131-134) and
\* DynProg.max_value, lines 47-53.
LpsInit ==
    /\ string \in LpsStrings
    /\ dp_class = "LPS"
    /\ neighbor_offsets = <<>>
    /\ final_state = <<0, lenstr>>
    /\ dp_initial_states = LPS_initial_states
    /\ dp_pc = "max_value"
    /\ open_states = [i \in 1..Len(dp_initial_states) |-> dp_initial_states[i][1]]
    /\ map_state_to_value = DictOf(dp_initial_states)
    /\ dp_num_of_processed_states = 0
    /\ opened = <<>>
    /\ map_state_to_previous = <<>>
    /\ reached_final_states = <<>>
    /\ current_state_value_data = <<>>
    /\ best_final_state_value_data = <<>>
    /\ dp_path = <<>>
    /\ dp_max_value_result = NotReturned
    /\ solve_result = NotReturned

LpsSpecInit == LpsInit /\ SeqIdle /\ FirstRun

\* classbased.py: LPS(string).max_value(), then LPS(string).solve().
LpsSpec == LpsSpecInit /\ [][DpNext]_vars

\* ------------------------------------------------------------------------
\* The sequential engine as its contract describes it: the generations are
\* enumerated path by path.  A path is the list of the (0-based) indices of
\* the transition functions applied to the inputs in order.
\* ------------------------------------------------------------------------

\* Every transition function has its filter h_k.
WellPaired ==
    filter_functions = NoneFilters
      \/ Len(filter_functions) >= Len(transition_functions)

\* The number of transition functions that have a filter.
NumPaired ==
    IF filter_functions = NoneFilters \/ Len(transition_functions) <= Len(filter_functions)
    THEN Len(transition_functions)
    ELSE Len(filter_functions)

FilterOf(k) == IF filter_functions = NoneFilters THEN "always" ELSE filter_functions[k]

\* The state reached from s0 along path p.
RECURSIVE ReplayState(_, _)
ReplayState(s0, p) ==
    IF Len(p) = 0 THEN s0
    ELSE LET n == Len(p)
         IN  ApplyTransition(transition_functions[p[n] + 1],
                             ReplayState(s0, SubSeq(p, 1, n - 1)), inputs[n])

\* Every step of path p from s0 passes the filter paired with its transition.
ReplayAccepted(s0, p) ==
    \A t \in 1..Len(p) :
        ApplyFilter(FilterOf(p[t] + 1), ReplayState(s0, SubSeq(p, 1, t - 1)), inputs[t])

\* All pairs <<j, p>> of an initial state's position and a path of length i
\* over K transition functions, in generation order: transition 0 first, and
\* within one transition the order of the previous generation.
RECURSIVE AllPaths(_, _)
AllPaths(i, K) ==
    IF i = 0 THEN [j \in 1..Len(initial_states) |-> <<j, <<>>>>]
    ELSE LET prev == AllPaths(i - 1, K)
         IN  Flatten([k \in 1..K |->
                        [m \in 1..Len(prev) |-> <<prev[m][1], Append(prev[m][2], k - 1)>>]])

\* Generation i over K transition functions.
Generation(i, K) ==
    LET ok == SelectSeq(AllPaths(i, K),
                        LAMBDA jp : ReplayAccepted(initial_states[jp[1]], jp[2]))
    IN  [m \in 1..Len(ok) |-> ReplayState(initial_states[ok[m][1]], ok[m][2])]

ValuesOf(gen) == [i \in 1..Len(gen) |-> ApplyValue(value_function, gen[i])]

IsMaximumOf(v, vals) ==
    /\ \E i \in 1..Len(vals) : vals[i] = v
    /\ \A i \in 1..Len(vals) : ~ValueLess(v, vals[i])

RECURSIVE SumOfSizes(_, _)
SumOfSizes(i, K) ==
    IF i = 0 THEN Len(Generation(0, K))
    ELSE Len(Generation(i, K)) + SumOfSizes(i - 1, K)

\* construction_functions[p[t]] applied to input t, for t = 1..Len(p) in order.
RECURSIVE Constructed(_)
Constructed(p) ==
    IF Len(p) = 0 THEN initial_solution
    ELSE LET n == Len(p)
         IN  ApplyConstruction(construction_functions[p[n] + 1],
                               Constructed(SubSeq(p, 1, n - 1)), inputs[n])

MaxValueReturned == max_value_result.kind # "running"

MaxValueSolutionReturned == max_value_solution_result.kind # "running"

\* ------------------------------------------------------------------------
\* C1.  Sequential max_value: when every transition function has its filter,
\* the live states after i inputs are exactly generation i (generation 0 is
\* initial_states, generation i+1 is [f_k(s, input) for each transition k, for
\* each s of generation i accepted by h_k]), and the value returned is the
\* maximum of g over the final generation.
\* ------------------------------------------------------------------------
C1_MaxValueIsMaxOfFinalGeneration ==
    WellPaired =>
      /\ pc = "max_value" =>
           current_states = Generation(input_index, Len(transition_functions))
      /\ MaxValueReturned =>
           LET final == Generation(Len(inputs), Len(transition_functions))
           IN  /\ Len(final) > 0 => max_value_result.kind = "value"
               /\ max_value_result.kind = "value" =>
                    IsMaximumOf(max_value_result.value, ValuesOf(final))

\* max_value returned a maximum that is not the first state's value, after
\* two inputs, two transition functions and a filter that rejected a pair.
C1_Witness ==
    /\ WellPaired
    /\ filter_functions # NoneFilters
    /\ Len(transition_functions) = 2
    /\ Len(inputs) = 2
    /\ max_value_result.kind = "value"
    /\ Len(current_states) >= 2
    /\ Len(current_states) < 4 * Len(initial_states)
    /\ max_value_result.value # ApplyValue(value_function, current_states[1])

\* ------------------------------------------------------------------------
\* C4.  Sequential max_value_solution returns (best_final_state,
\* best_final_value, solution, total_states_processed): the state is one of
\* the final generation, the value is g of that state and the maximum of g
\* over the final generation, and the total is the number of initial states
\* plus the sizes of all generations produced.
\* ------------------------------------------------------------------------
C4_SolutionTuple ==
    max_value_solution_result.kind = "value" =>
      LET r == max_value_solution_result
          final == Generation(Len(inputs), NumPaired)
      IN  /\ \E i \in 1..Len(final) : final[i] = r.best_final_state
          /\ r.best_final_state_value = ApplyValue(value_function, r.best_final_state)
          /\ IsMaximumOf(r.best_final_state_value, ValuesOf(final))
          /\ r.num_of_processed_states = SumOfSizes(Len(inputs), NumPaired)

\* A tuple was returned after two inputs, with more states processed than
\* a single chain of states would give.
C4_Witness ==
    /\ max_value_solution_result.kind = "value"
    /\ Len(inputs) = 2
    /\ Len(initial_states) = 2
    /\ max_value_solution_result.num_of_processed_states > 6
    /\ max_value_solution_result.best_final_state_value # NegInf

\* ------------------------------------------------------------------------
\* C5.  Reconstruction consistency: the recovered path has one index per
\* input; replayed from some initial state through the transition functions
\* it passes every paired filter and ends in best_final_state, whose value is
\* the reported one; and the solution returned is construction_functions
\* applied along the path, in input order, from initial_solution.
\* ------------------------------------------------------------------------
C5_ReconstructionConsistent ==
    max_value_solution_result.kind = "value" =>
      LET r == max_value_solution_result
      IN  /\ Len(path) = Len(inputs)
          /\ \A t \in 1..Len(path) : path[t] \in 0..(NumPaired - 1)
          /\ \E j \in 1..Len(initial_states) :
                /\ ReplayAccepted(initial_states[j], path)
                /\ ReplayState(initial_states[j], path) = r.best_final_state
                /\ ApplyValue(value_function, ReplayState(initial_states[j], path))
                     = r.best_final_state_value
          /\ r.solution = Constructed(path)

\* A solution was built along a path that uses both transition functions.
C5_Witness ==
    /\ max_value_solution_result.kind = "value"
    /\ Len(path) = 2
    /\ path[1] # path[2]
    /\ Len(max_value_solution_result.solution) = 1
    /\ filter_functions # NoneFilters

\* ------------------------------------------------------------------------
\* C6.  Collections of mismatched lengths make the call fail with a
\* ConfigurationError before any input is processed.
\* ------------------------------------------------------------------------
FiltersMismatched ==
    filter_functions # NoneFilters
      /\ Len(filter_functions) # Len(transition_functions)

ConstructionsMismatched ==
    Len(construction_functions) # Len(transition_functions)

C6_MismatchIsConfigurationError ==
    /\ FiltersMismatched =>
         /\ max_value_result.kind \in {"running", "ConfigurationError"}
         /\ pc = "max_value" => input_index = 0
    /\ (FiltersMismatched \/ ConstructionsMismatched) =>
         /\ max_value_solution_result.kind \in {"running", "ConfigurationError"}
         /\ pc \in {"max_value_solution", "path", "construct"} => input_index = 0

\* ------------------------------------------------------------------------
\* C7.  max_value and max_value_solution raise ValueError("No final
\* states!") exactly when the final generation is empty, and return nothing
\* then; with every transition paired with its filter, the final generation
\* is empty exactly when there are no initial states or, at some step, every
\* (state, transition) pair is rejected by its filter.
\* ------------------------------------------------------------------------
AllRejectedAt(i, K) ==
    LET gen == Generation(i - 1, K)
    IN  \A m \in 1..Len(gen) : \A k \in 1..K :
            ~ApplyFilter(FilterOf(k), gen[m], inputs[i])

C7_ValueErrorIffNoFinalStates ==
    LET empty == Len(Generation(Len(inputs), NumPaired)) = 0
    IN  /\ MaxValueReturned => (max_value_result.kind = "ValueError" <=> empty)
        /\ pc = "done" =>
             (max_value_solution_result.kind = "ValueError" <=> empty)
        /\ (pc = "done" /\ empty) => path = <<>> /\ solution = <<>>
        /\ (WellPaired /\ MaxValueReturned) =>
             (max_value_result.kind = "ValueError" <=>
                \/ Len(initial_states) = 0
                \/ \E i \in 1..Len(inputs) :
                       AllRejectedAt(i, Len(transition_functions)))

\* Both calls raised although there were initial states: the filters
\* rejected every pair at the second input.
C7_Witness ==
    /\ pc = "done"
    /\ max_value_result.kind = "ValueError"
    /\ max_value_solution_result.kind = "ValueError"
    /\ Len(initial_states) > 0
    /\ Len(transition_functions) > 0
    /\ WellPaired
    /\ Len(inputs) = 2
    /\ Len(Generation(1, NumPaired)) > 0

\* ------------------------------------------------------------------------
\* C9.  With no inputs and at least one initial state, max_value returns
\* the maximum of g over the initial states and max_value_solution returns
\* that value with initial_solution unchanged and an empty path; with no
\* initial states both calls raise ValueError.
\* ------------------------------------------------------------------------
C9_EmptyInputsBoundary ==
    /\ (Len(inputs) = 0 /\ Len(initial_states) > 0) =>
         /\ MaxValueReturned =>
              /\ max_value_result.kind = "value"
              /\ IsMaximumOf(max_value_result.value, ValuesOf(initial_states))
         /\ pc = "done" =>
              /\ max_value_solution_result.kind = "value"
              /\ IsMaximumOf(max_value_solution_result.best_final_state_value,
                             ValuesOf(initial_states))
              /\ max_value_solution_result.solution = initial_solution
              /\ path = <<>>
    /\ Len(initial_states) = 0 =>
         /\ MaxValueReturned => max_value_result.kind = "ValueError"
         /\ pc = "done" => max_value_solution_result.kind = "ValueError"

\* Both calls returned on an empty input list and two initial states of
\* different value, the second the better one.
C9_Witness ==
    /\ pc = "done"
    /\ Len(inputs) = 0
    /\ Len(initial_states) = 2
    /\ max_value_solution_result.kind = "value"
    /\ max_value_solution_result.best_final_state = initial_states[2]
    /\ initial_states[1] # initial_states[2]
    /\ max_value_result.kind = "value"

\* ------------------------------------------------------------------------
\* The general engine as its contract describes it.
\* ------------------------------------------------------------------------
InitialStateSet == {dp_initial_states[i][1] : i \in 1..Len(dp_initial_states)}

\* The states some chain of neighbors() reaches from the initial states.
RECURSIVE NeighborClosure(_)
NeighborClosure(S) ==
    LET T == S \cup ({st + neighbor_offsets[i] :
                        st \in S, i \in 1..Len(neighbor_offsets)} \cap States)
    IN  IF T = S THEN S ELSE NeighborClosure(T)

ReachableStates == NeighborClosure(InitialStateSet)

\* The contract's traversal: a state's value is recorded when the state is
\* first discovered and raised when a later tuple for it carries a strictly
\* greater value; a state is enqueued at its first discovery only.
RECURSIVE RecordVisit(_, _)
RecordVisit(nbrs, r) ==
    IF Len(nbrs) = 0 THEN r
    ELSE LET next_state == Head(nbrs)[1]
             next_value == Head(nbrs)[2]
         IN  RecordVisit(Tail(nbrs),
               IF next_state \in DOMAIN r.map
               THEN IF ValueLess(r.map[next_state], next_value)
                    THEN [r EXCEPT !.map[next_state] = next_value]
                    ELSE r
               ELSE [map |-> (next_state :> next_value) @@ r.map,
                     open |-> Append(r.open, next_state)])

RECURSIVE RecordRun(_)
RecordRun(r) ==
    IF Len(r.open) = 0 THEN r.map
    ELSE LET st == Head(r.open)
         IN  RecordRun(RecordVisit(neighbors(st, r.map[st], NoneData),
                                   [map |-> r.map, open |-> Tail(r.open)]))

RecordedValues == RecordRun(RecordVisit(dp_initial_states, [map |-> <<>>, open |-> <<>>]))

DynProgMaxValueReturned == dp_max_value_result.kind # "running"

\* ------------------------------------------------------------------------
\* C2.  DynProg.max_value returns the maximum, over the final states, of
\* the value recorded for the state: the value at its first discovery, raised
\* in place by every later tuple with a strictly greater value.
\* ------------------------------------------------------------------------
C2_MaxValueIsRecordedValueOfFinalState ==
    (DynProgMaxValueReturned /\ final_state \in DOMAIN RecordedValues) =>
        dp_max_value_result =
            [kind |-> "value", value |-> RecordedValues[final_state]]

\* ------------------------------------------------------------------------
\* C3.  DynProg.solve returns the (state, value, data) triple of the
\* best-valued final state met by the traversal, together with the path of
\* states from an initial state to it.
\* ------------------------------------------------------------------------
C3_SolveReturnsBestTripleAndPath ==
    solve_result.kind = "value" =>
      LET best == solve_result.best_final_state_value_data
      IN  /\ \E i \in 1..Len(reached_final_states) : reached_final_states[i] = best
          /\ \A i \in 1..Len(reached_final_states) :
                 ~ValueLess(best[2], reached_final_states[i][2])
          /\ is_final_state(best[1])
          /\ "path" \in DOMAIN solve_result
          /\ solve_result.path = dp_path

\* ------------------------------------------------------------------------
\* C8.  When no final state is ever reached (initial_states yielding
\* nothing included), max_value and solve both fail with the ValueError of
\* a maximum over an empty list.
\* ------------------------------------------------------------------------
C8_NoFinalStateIsValueError ==
    final_state \notin ReachableStates =>
      /\ dp_max_value_result.kind \in {"running", "ValueError"}
      /\ solve_result.kind \in {"running", "ValueError"}
      /\ dp_pc = "done" => solve_result.kind = "ValueError"

\* ------------------------------------------------------------------------
\* C10.  No state is expanded twice: a state is opened at most once, and
\* once opened it is never enqueued again, by max_value or by solve.
\* ------------------------------------------------------------------------
QueuedStates ==
    IF dp_pc \in {"solve", "solve_path", "done"}
    THEN [i \in 1..Len(open_states) |-> open_states[i][1]]
    ELSE open_states

Occurrences(seq, x) == Cardinality({i \in 1..Len(seq) : seq[i] = x})

OpenedSet == {opened[i] : i \in 1..Len(opened)}

C10_NoStateExpandedTwice ==
    [][/\ Len(opened') = Len(opened) + 1 => opened'[Len(opened')] \notin OpenedSet
       /\ \A st \in OpenedSet \cap OpenedSet' :
              Occurrences(QueuedStates', st) <= Occurrences(QueuedStates, st)]_vars

\* ------------------------------------------------------------------------
\* C11.  DynProg.solve is first-discovery-wins: once a state has a previous
\* triple (None for an initial state, otherwise the triple that first
\* produced it), no step changes that triple or enqueues another tuple for
\* the state, whatever value a later path to the state carries.
\* ------------------------------------------------------------------------
EntriesOf(queue, st) == SelectSeq(queue, LAMBDA t : t[1] = st)

IsSuffixOf(b, a) == \E k \in 0..Len(a) : b = SubSeq(a, k + 1, Len(a))

C11_FirstDiscoveryWins ==
    [][dp_pc = "solve" =>
         \A st \in DOMAIN map_state_to_previous :
             /\ st \in DOMAIN map_state_to_previous'
             /\ map_state_to_previous'[st] = map_state_to_previous[st]
             /\ IsSuffixOf(EntriesOf(open_states', st), EntriesOf(open_states, st))]_vars

\* The tuple a discovered state was enqueued with.
EnqueuedTriple(st) ==
    LET previous == map_state_to_previous[st]
    IN  IF previous = NoPrevious
        THEN dp_initial_states[CHOOSE i \in 1..Len(dp_initial_states) :
                                  /\ dp_initial_states[i][1] = st
                                  /\ \A j \in 1..(i - 1) : dp_initial_states[j][1] # st]
        ELSE LET nbrs == neighbors(previous[1], previous[2], previous[3])
             IN  nbrs[CHOOSE i \in 1..Len(nbrs) : nbrs[i][1] = st]

\* solve returned after an opened state u yielded, for a state t that already
\* had another previous triple, a tuple of strictly greater value than the
\* one t was enqueued with.
C11_Witness ==
    /\ solve_result.kind = "value"
    /\ \E u \in OpenedSet, t \in DOMAIN map_state_to_previous :
           LET from == EnqueuedTriple(u)
               nbrs == neighbors(from[1], from[2], from[3])
           IN  \E i \in 1..Len(nbrs) :
                   /\ nbrs[i][1] = t
                   /\ map_state_to_previous[t] # from
                   /\ ValueLess(EnqueuedTriple(t)[2], nbrs[i][2])

\* ------------------------------------------------------------------------
\* C12.  On an acyclic state graph in which every state is discovered
\* exactly once (yielded once by initial_states or by the neighbors of one
\* state, never both, never twice), with a final state that is reached,
\* DynProg.max_value and DynProg.solve return the same optimal value.
\* ------------------------------------------------------------------------
EdgeTargets(st) ==
    {st + neighbor_offsets[i] : i \in 1..Len(neighbor_offsets)} \cap States

AcyclicGraph ==
    \A st \in ReachableStates : st \notin NeighborClosure(EdgeTargets(st))

\* The number of tuples for st that the traversal meets.
Discoveries(st) ==
    Cardinality({i \in 1..Len(dp_initial_states) : dp_initial_states[i][1] = st})
      + Cardinality({<<u, i>> \in ReachableStates \X (1..Len(neighbor_offsets)) :
                       u + neighbor_offsets[i] = st})

EveryStateDiscoveredOnce == \A st \in ReachableStates : Discoveries(st) = 1

C12_EnginesAgree ==
    (/\ dp_pc = "done"
     /\ AcyclicGraph
     /\ EveryStateDiscoveredOnce
     /\ final_state \in ReachableStates) =>
        /\ dp_max_value_result.kind = "value"
        /\ solve_result.kind = "value"
        /\ dp_max_value_result.value = solve_result.best_final_state_value_data[2]

\* ------------------------------------------------------------------------
\* C13.  Sequential engine, generation size: processing an input leaves at
\* most (live states before) x (transition functions) live states, and
\* exactly that many when every transition function has its filter and no
\* filter rejects a (state, input) pair; equal states are not merged: there
\* is one live entry for each (transition, live state) pair its filter
\* accepts.
\* ------------------------------------------------------------------------
AcceptedPairs(cur, input) ==
    {km \in (1..NumPaired) \X (1..Len(cur)) :
        ApplyFilter(FilterOf(km[1]), cur[km[2]], input)}

NoPairRejected(cur, input) ==
    \A k \in 1..NumPaired, m \in 1..Len(cur) : ApplyFilter(FilterOf(k), cur[m], input)

GenerationSizeLaw(before, after, input) ==
    /\ Len(after) <= Len(before) * Len(transition_functions)
    /\ (WellPaired /\ NoPairRejected(before, input)) =>
          Len(after) = Len(before) * Len(transition_functions)
    /\ Len(after) = Cardinality(AcceptedPairs(before, input))

StatesOfRecords(recs, cur) == [i \in 1..Len(cur) |-> recs[cur[i]].state]

SameInputsAgain == run = 2 /\ earlier.inputs = "same"

AllDead(states) ==
    /\ Len(states) > 0
    /\ \A i \in 1..Len(states) : ApplyValue(value_function, states[i]) = NegInf

\* Every path of the final records has its construction function.
ConstructionsSuffice == Len(construction_functions) >= NumPaired

C15_NegInfIsOrdinary ==
    /\ (MaxValueReturned /\ AllDead(current_states)) =>
          max_value_result = [kind |-> "value", value |-> NegInf]
    /\ (pc = "done" /\ AllDead(StatesOfRecords(records, current_state_records))) =>
          /\ max_value_solution_result.kind # "ValueError"
          /\ ConstructionsSuffice =>
                /\ max_value_solution_result.kind = "value"
                /\ max_value_solution_result.best_final_state_value = NegInf
                /\ utilitarian_proportional_allocation(max_value_solution_result)
                     = Raised("ValueError: No proportional allocation")
    /\ (pc = "done" /\ max_value_solution_result.kind = "value"
          /\ ~AllDead(StatesOfRecords(records, current_state_records))) =>
          /\ max_value_solution_result.best_final_state_value # NegInf
          /\ utilitarian_proportional_allocation(max_value_solution_result).kind = "value"

\* Both calls returned minus infinity after two inputs, with several final
\* states, all below the threshold of the value function.
C15_Witness ==
    /\ pc = "done"
    /\ Len(inputs) = 2
    /\ Len(current_states) >= 2
    /\ AllDead(current_states)
    /\ max_value_result = [kind |-> "value", value |-> NegInf]
    /\ max_value_solution_result.kind = "value"
    /\ max_value_solution_result.best_final_state_value = NegInf

\* ------------------------------------------------------------------------
\* C16.  The data payload decides neither identity nor value in
\* DynProg.solve: a run whose initial_states and neighbors yield the same
\* (state, value) pairs in the same order with other data opens the same
\* states in the same order, follows the same path and selects the same best
\* final state and value.
\* ------------------------------------------------------------------------
OtherDataRun == run = 2 /\ earlier.inputs = "other data"

C16_DataDoesNotDecide ==
    (OtherDataRun /\ dp_pc = "done") =>
      /\ opened = earlier.opened
      /\ dp_path = earlier.dp_path
      /\ solve_result.kind = earlier.solve_result.kind
      /\ solve_result.kind = "value" =>
           LET best == solve_result.best_final_state_value_data
               first == earlier.solve_result.best_final_state_value_data
           IN  best[1] = first[1] /\ best[2] = first[2]

\* The run with the other data returned a final state reached through a
\* neighbor, after a state already discovered was met again; its data is not
\* that of the first run.
C16_Witness ==
    /\ OtherDataRun
    /\ dp_pc = "done"
    /\ solve_result.kind = "value"
    /\ Len(dp_path) >= 2
    /\ Len(opened) = 3
    /\ Len(dp_initial_states) = 2
    /\ solve_result.best_final_state_value_data[3]
         # earlier.solve_result.best_final_state_value_data[3]

\* ------------------------------------------------------------------------
\* C17.  Subset-sum on the sequential engine: for a list of positive
\* integers and a capacity >= 0, max_value returns the largest sum of a
\* sub-collection of the inputs that does not exceed the capacity, and
\* max_value_solution returns a sub-list of the inputs, in input order, with
\* that sum; for [100,200,400,700,1100,1600,2200,2900,3700] and capacity 4005
\* these are 4000 and [100,200,3700].
\* ------------------------------------------------------------------------
RECURSIVE SumSeq(_)
SumSeq(seq) == IF Len(seq) = 0 THEN 0 ELSE Head(seq) + SumSeq(Tail(seq))

\* The sub-list of seq at the positions in S, in the order of seq.
RECURSIVE SubList(_, _)
SubList(seq, S) ==
    IF Len(seq) = 0 THEN <<>>
    ELSE LET n == Len(seq)
             front == SubList(SubSeq(seq, 1, n - 1), S)
         IN  IF n \in S THEN Append(front, seq[n]) ELSE front

SubLists(seq) == {SubList(seq, S) : S \in SUBSET (1..Len(seq))}

FittingSums == {SumSeq(l) : l \in {m \in SubLists(inputs) : SumSeq(m) <= capacity}}

BestSubsetSum == CHOOSE b \in FittingSums : \A c \in FittingSums : c <= b

C17_SubsetSum ==
    /\ MaxValueReturned =>
          /\ max_value_result = [kind |-> "value", value |-> Finite(BestSubsetSum)]
          /\ (inputs = DoctestInputs /\ capacity = DoctestCapacity) =>
                max_value_result.value = Finite(4000)
    /\ pc = "done" =>
          /\ max_value_solution_result.kind = "value"
          /\ max_value_solution_result.solution \in SubLists(inputs)
          /\ SumSeq(max_value_solution_result.solution) = BestSubsetSum
          /\ (inputs = DoctestInputs /\ capacity = DoctestCapacity) =>
                max_value_solution_result.solution = <<100, 200, 3700>>

\* The doctest's call returned.
C17_Witness ==
    /\ pc = "done"
    /\ inputs = DoctestInputs
    /\ capacity = DoctestCapacity
    /\ max_value_result = [kind |-> "value", value |-> Finite(4000)]
    /\ max_value_solution_result.kind = "value"
    /\ max_value_solution_result.solution = <<100, 200, 3700>>

\* ------------------------------------------------------------------------
\* C18.  Knapsack on the sequential engine: max_value returns the maximum
\* total value of a subset of the items whose total weight does not exceed
\* the capacity, and max_value_solution returns the chosen items as the list
\* of their weights, of total value max_value; for weights [3,5], values
\* [10,20] and capacity 4 these are 10 and [3].
\* In a solution list the number w is written <<w>>, the pair (w, v) <<w, v>>.
\* ------------------------------------------------------------------------
RECURSIVE SumOfColumn(_, _)
SumOfColumn(items, c) ==
    IF Len(items) = 0 THEN 0 ELSE Head(items)[c] + SumOfColumn(Tail(items), c)

FittingItemLists == {l \in SubLists(inputs) : SumOfColumn(l, 1) <= capacity}

BestKnapsackValue ==
    CHOOSE b \in {SumOfColumn(l, 2) : l \in FittingItemLists} :
        \A l \in FittingItemLists : SumOfColumn(l, 2) <= b

WeightsOf(items) == [i \in 1..Len(items) |-> <<items[i][1]>>]

C18_Knapsack ==
    /\ MaxValueReturned =>
          max_value_result = [kind |-> "value", value |-> Finite(BestKnapsackValue)]
    /\ pc = "done" =>
          /\ max_value_solution_result.kind = "value"
          /\ \E l \in FittingItemLists :
                /\ SumOfColumn(l, 2) = BestKnapsackValue
                /\ max_value_solution_result.solution = WeightsOf(l)
          /\ (inputs = << <<3, 10>>, <<5, 20>> >> /\ capacity = 4) =>
                /\ max_value_result.value = Finite(10)
                /\ max_value_solution_result.solution = << <<3>> >>

\* ------------------------------------------------------------------------
\* C19.  Longest palindromic subsequence on the general engine: for every
\* non-empty string, max_value returns the length of a longest palindromic
\* subsequence of the string, and the data of the triple that solve returns
\* is a palindromic subsequence of the string of that length; for "abcdba"
\* these are 5 and "abcba".
\* ------------------------------------------------------------------------
Reverse(seq) == [k \in 1..Len(seq) |-> seq[Len(seq) + 1 - k]]

IsPalindrome(seq) == seq = Reverse(seq)

PalindromicSubsequences == {l \in SubLists(string) : IsPalindrome(l)}

LongestPalindromeLength ==
    CHOOSE n \in {Len(l) : l \in PalindromicSubsequences} :
        \A l \in PalindromicSubsequences : Len(l) <= n

SolveReturned == solve_result.kind # "running"

C19_LongestPalindromicSubsequence ==
    /\ DynProgMaxValueReturned =>
          dp_max_value_result =
             [kind |-> "value", value |-> Finite(LongestPalindromeLength)]
    /\ SolveReturned =>
          /\ solve_result.kind = "value"
          /\ solve_result.best_final_state_value_data[1] = <<0, lenstr>>
          /\ solve_result.best_final_state_value_data[2] = Finite(LongestPalindromeLength)
          /\ solve_result.best_final_state_value_data[3] \in PalindromicSubsequences
          /\ Len(solve_result.best_final_state_value_data[3]) = LongestPalindromeLength
    /\ (SolveReturned /\ string = DoctestString) =>
          /\ dp_max_value_result.value = Finite(5)
          /\ solve_result.best_final_state_value_data[3] = <<1, 2, 3, 2, 1>>

\* ------------------------------------------------------------------------
\* C20.  Egalitarian allocation on the sequential engine: for every valuation
\* matrix, egalitarian_value is the maximum, over all assignments of each
\* item to exactly one agent, of the minimum value of an agent's bundle, and
\* egalitarian_allocation returns that value with an allocation that assigns
\* every item to exactly one agent and attains it; for
\* [[11,22,33,44],[44,33,22,11]] these are 77 and [[2,3],[0,1]].
\* ------------------------------------------------------------------------
NumAgents == Len(valuation_matrix)

NumItems == Len(valuation_matrix[1])

\* The assignments: the agent (from 1) of each item (from 1).
Assignments == [1..NumItems -> 1..NumAgents]

RECURSIVE SumOver(_, _)
SumOver(S, f) ==
    IF S = {} THEN 0
    ELSE LET x == CHOOSE y \in S : TRUE IN f[x] + SumOver(S \ {x}, f)

BundleValue(agent, items) == SumOver(items, valuation_matrix[agent])

MinBundleValue(a) ==
    MinOfList([agent \in 1..NumAgents |->
                 BundleValue(agent, {i \in 1..NumItems : a[i] = agent})])

MaxMinValue ==
    CHOOSE v \in {MinBundleValue(a) : a \in Assignments} :
        \A a \in Assignments : MinBundleValue(a) <= v

\* The bundles (lists of item indices from 0) are those of the assignment.
IsAllocationOf(bundles, a) ==
    /\ Len(bundles) = NumAgents
    /\ \A agent \in 1..NumAgents :
          /\ {bundles[agent][p] + 1 : p \in 1..Len(bundles[agent])}
                = {i \in 1..NumItems : a[i] = agent}
          /\ Len(bundles[agent]) = Cardinality({i \in 1..NumItems : a[i] = agent})

C20_Egalitarian ==
    /\ MaxValueReturned =>
          max_value_result = [kind |-> "value", value |-> Finite(MaxMinValue)]
    /\ pc = "done" =>
          /\ max_value_solution_result.kind = "value"
          /\ LET returned == egalitarian_allocation(max_value_solution_result)
             IN  /\ returned[1] = Finite(MaxMinValue)
                 /\ \E a \in Assignments :
                       /\ IsAllocationOf(returned[2], a)
                       /\ MinBundleValue(a) = MaxMinValue
                 /\ valuation_matrix = DoctestMatrix =>
                       returned = <<Finite(77), << <<2, 3>>, <<0, 1>> >> >>

\* Both calls returned on a matrix of two agents who value an item
\* differently, with every agent given an item.
C20_Witness ==
    /\ pc = "done"
    /\ max_value_result.kind = "value"
    /\ max_value_solution_result.kind = "value"
    /\ NumAgents = 2
    /\ NumItems >= 2
    /\ \E i \in 1..NumItems : valuation_matrix[1][i] # valuation_matrix[2][i]
    /\ \A agent \in 1..NumAgents : Len(max_value_solution_result.solution[agent]) > 0
    /\ max_value_result.value = Finite(MaxMinValue)

\* ------------------------------------------------------------------------
\* C21.  Default filters: max_value and max_value_solution called with
\* filter_functions omitted (None) return what they return when called with
\* one always-true filter for each transition function; with None every
\* pair of a state and a transition function is accepted at every step, so
\* that each generation has as many states as the one before it times the
\* number of transition functions.
\* ------------------------------------------------------------------------
RECURSIVE Power(_, _)
Power(b, e) == IF e = 0 THEN 1 ELSE b * Power(b, e - 1)

ExplicitFiltersRun == run = 2 /\ earlier.inputs = "explicit filters"

AllPairsAccepted(generation) ==
    Len(generation) = Len(initial_states) * Power(Len(transition_functions), input_index)

C21_DefaultFilters ==
    /\ ExplicitFiltersRun =>
          /\ MaxValueReturned => max_value_result = earlier.max_value_result
          /\ pc = "done" =>
                /\ max_value_solution_result = earlier.max_value_solution_result
                /\ path = earlier.path
    /\ (filter_functions = NoneFilters /\ pc = "max_value") =>
          AllPairsAccepted(current_states)
    /\ (filter_functions = NoneFilters /\ pc = "max_value_solution") =>
          AllPairsAccepted(current_state_records)

\* The run with the explicit filters returned a solution built over two
\* inputs with two transition functions, as the run with None did.
C21_Witness ==
    /\ ExplicitFiltersRun
    /\ pc = "done"
    /\ filter_functions = AlwaysTrueFilters(2)
    /\ Len(inputs) = 2
    /\ Len(current_state_records) = 4 * Len(initial_states)
    /\ Len(initial_states) > 0
    /\ max_value_solution_result.kind = "value"
    /\ earlier.max_value_solution_result.kind = "value"

\* ------------------------------------------------------------------------
\* C22.  The worklist step of DynProg.max_value: a neighbor not seen before
\* is recorded in map_state_to_value with its value and enqueued, so that
\* every state in the worklist has a recorded value and popping the head
\* never finds a state without one.
\* ------------------------------------------------------------------------
C22_WorklistStatesAreRecorded ==
    dp_pc = "max_value" =>
       \A i \in 1..Len(open_states) : open_states[i] \in DOMAIN map_state_to_value

\* ------------------------------------------------------------------------
\* C23.  Updating a recorded value in place, without enqueueing the state
\* again, is enough on acyclic graphs: on every acyclic state graph
\* DynProg.max_value returns the value that a reference traversal returns
\* which records every state at its discovery and enqueues a state again
\* whenever its recorded value is raised.
\* ------------------------------------------------------------------------
RECURSIVE ReenqueueVisit(_, _)
ReenqueueVisit(nbrs, r) ==
    IF Len(nbrs) = 0 THEN r
    ELSE LET next_state == Head(nbrs)[1]
             next_value == Head(nbrs)[2]
         IN  ReenqueueVisit(Tail(nbrs),
               IF next_state \in DOMAIN r.map
               THEN IF ValueLess(r.map[next_state], next_value)
                    THEN [map |-> [r.map EXCEPT ![next_state] = next_value],
                          open |-> Append(r.open, next_state)]
                    ELSE r
               ELSE [map |-> (next_state :> next_value) @@ r.map,
                     open |-> Append(r.open, next_state)])

RECURSIVE ReenqueueRun(_)
ReenqueueRun(r) ==
    IF Len(r.open) = 0 THEN r.map
    ELSE LET st == Head(r.open)
         IN  ReenqueueRun(ReenqueueVisit(neighbors(st, r.map[st], NoneData),
                                         [map |-> r.map, open |-> Tail(r.open)]))

\* The reference traversal starts as max_value does (lines 47-52).
ReferenceValues ==
    ReenqueueRun([map |-> DictOf(dp_initial_states),
                  open |-> [i \in 1..Len(dp_initial_states) |-> dp_initial_states[i][1]]])

C23_InPlaceUpdateSuffices ==
    (/\ DynProgMaxValueReturned
     /\ AcyclicGraph
     /\ final_state \in DOMAIN ReferenceValues) =>
        dp_max_value_result =
           [kind |-> "value", value |-> ReferenceValues[final_state]]

\* ------------------------------------------------------------------------
\* C24.  Termination of the general engine: on every state graph with
\* finitely many reachable states, cyclic or not, the worklist of max_value
\* and that of solve eventually become empty and the traversal ends, each
\* reachable state having been expanded at most once.
\* ------------------------------------------------------------------------
\* max_value and solve leave their loops only on an empty worklist.
LoopsEndOnEmptyWorklist ==
    [][/\ (dp_pc = "max_value" /\ dp_pc' # "max_value") => Len(open_states) = 0
       /\ (dp_pc = "solve" /\ dp_pc' # "solve") => Len(open_states) = 0]_vars

ExpandedAtMostOnce ==
    /\ \A st \in States : Occurrences(opened, st) <= 1
    /\ OpenedSet \subseteq ReachableStates

C24_Terminates ==
    /\ <>(dp_pc = "call_solve")
    /\ <>(dp_pc = "done")
    /\ LoopsEndOnEmptyWorklist
    /\ []ExpandedAtMostOnce

\* ------------------------------------------------------------------------
\* C25.  Path reconstruction in DynProg.solve: the walk along the previous
\* triples from the best final state always ends, at a state whose previous
\* triple is None; that state is an initial state, the walk visits no state
\* twice, and every two consecutive states (p, s) of the path are an edge:
\* s is yielded by neighbors(p).
\* ------------------------------------------------------------------------
NoStateTwice(seq) == \A i, j \in 1..Len(seq) : i # j => seq[i] # seq[j]

IsChainOfEdges(seq) ==
    \A k \in 1..(Len(seq) - 1) : seq[k + 1] \in EdgeTargets(seq[k])

\* The states walked so far, and the one the walk stands at.
WalkIsSound ==
    dp_pc = "solve_path" =>
       LET walked == <<current_state_value_data[1]>> \o dp_path
       IN  /\ NoStateTwice(walked)
           /\ IsChainOfEdges(walked)
           /\ walked[Len(walked)] = best_final_state_value_data[1]

WalkEndsAtInitialState ==
    (dp_pc = "done" /\ solve_result.kind = "value") =>
       /\ Len(dp_path) > 0
       /\ map_state_to_previous[dp_path[1]] = NoPrevious
       /\ dp_path[1] \in InitialStateSet
       /\ NoStateTwice(dp_path)
       /\ IsChainOfEdges(dp_path)
       /\ dp_path[Len(dp_path)] = solve_result.best_final_state_value_data[1]

C25_PathReconstruction ==
    /\ (dp_pc = "solve_path") ~> (dp_pc = "done")
    /\ []WalkIsSound
    /\ []WalkEndsAtInitialState

\* The walk went back over two edges of a graph with a cycle, from a final
\* state that is not an initial state.
C25_Witness ==
    /\ dp_pc = "done"
    /\ solve_result.kind = "value"
    /\ Len(dp_path) = 3
    /\ ~AcyclicGraph
    /\ final_state \notin InitialStateSet

\* ------------------------------------------------------------------------
\* C26.  Monotonicity of the values DynProg.max_value records: during the
\* traversal the value recorded for a state never decreases; it changes only
\* when a neighbor tuple for the recorded state carries a strictly greater
\* value, and a tuple with an equal or lower value leaves the mapping as it
\* is.
\* ------------------------------------------------------------------------
\* The values of the tuples for st that the state being opened yields.
TupleValuesFor(st) ==
    LET current_state == Head(open_states)
        nbrs == neighbors(current_state, map_state_to_value[current_state], NoneData)
    IN  {nbrs[i][2] : i \in {j \in 1..Len(nbrs) : nbrs[j][1] = st}}

C26_RecordedValuesNeverDecrease ==
    [][(dp_pc = "max_value" /\ Len(opened') = Len(opened) + 1) =>
         /\ DOMAIN map_state_to_value' = DOMAIN map_state_to_value
         /\ \A st \in DOMAIN map_state_to_value :
               LET old == map_state_to_value[st]
                   new == map_state_to_value'[st]
               IN  /\ ~ValueLess(new, old)
                   /\ new # old => (new \in TupleValuesFor(st) /\ ValueLess(old, new))
                   /\ \A v \in TupleValuesFor(st) : ~ValueLess(new, v)
                   /\ (\A v \in TupleValuesFor(st) : ~ValueLess(old, v)) => new = old]_vars

\* max_value raised the value of a state in place, and a later tuple for a
\* recorded state with a value not greater than the recorded one is at hand.
C26_Witness ==
    /\ dp_pc = "max_value"
    /\ Len(open_states) > 0
    /\ Head(open_states) \in DOMAIN map_state_to_value
    /\ \E st \in DOMAIN map_state_to_value :
          ValueLess(DictOf(dp_initial_states)[st], map_state_to_value[st])
    /\ \E st \in DOMAIN map_state_to_value : \E v \in TupleValuesFor(st) :
          ~ValueLess(map_state_to_value[st], v)

\* ------------------------------------------------------------------------
\* C27.  The StateRecords of max_value_solution form a forest: after i
\* inputs every live record has a chain of exactly i back-references, ending
\* at a record without back-reference that wraps an initial state, and the
\* transition_index of every link is an index of transition_functions; so
\* the recovered path has exactly one index for each input, and
\* path[input_index] is never out of range.
\* ------------------------------------------------------------------------
RECURSIVE ChainOf(_)
ChainOf(r) == IF records[r].prev = 0 THEN <<r>> ELSE ChainOf(records[r].prev) \o <<r>>

IsChainFromInitialState(chain) ==
    LET root == chain[1]
    IN  /\ records[root].prev = 0
        /\ records[root].transition_index = NoneIndex
        /\ root \in 1..Len(initial_states)
        /\ records[root].state = initial_states[root]
        /\ \A k \in 2..Len(chain) :
              /\ records[chain[k]].prev = chain[k - 1]
              /\ records[chain[k]].transition_index
                    \in 0..(Len(transition_functions) - 1)

C27_StateRecordForest ==
    /\ pc \in {"max_value_solution", "path", "construct"} =>
          \A i \in 1..Len(current_state_records) :
             LET chain == ChainOf(current_state_records[i])
             IN  /\ Len(chain) = input_index + 1 \/ pc # "max_value_solution"
                 /\ Len(chain) = Len(inputs) + 1 \/ pc = "max_value_solution"
                 /\ IsChainFromInitialState(chain)
    /\ pc = "path" => Len(path) + Len(ChainOf(record)) = Len(inputs) + 1
    /\ pc = "construct" =>
          /\ Len(path) = Len(inputs)
          /\ \A k \in 1..Len(path) : path[k] \in 0..(Len(transition_functions) - 1)
          /\ \A k \in 1..Len(path) :
                path[k] = records[ChainOf(best_final_record)[k + 1]].transition_index
    /\ (pc = "done" /\ max_value_solution_result.kind = "IndexError") =>
          path[input_index + 1] + 1 > Len(construction_functions)

\* The construction stands at the second input with a path of two indices,
\* recovered from a record whose chain starts at the second initial state.
C27_Witness ==
    /\ pc = "construct"
    /\ input_index = 1
    /\ Len(inputs) = 2
    /\ Len(path) = 2
    /\ path[1] # path[2]
    /\ ChainOf(best_final_record)[1] = 2
    /\ Len(current_state_records) > 2

\* ------------------------------------------------------------------------
\* C28.  The value max_value returns does not depend on the order in which
\* the pairs (state, transition function) of a generation are expanded, by
\* one worker or by several interleaved, as long as a generation is complete
\* before the next begins and the maximum is taken after the last one: in
\* any order the live states are those of the generation in the order of the
\* code, and the result is the maximum of the value function over it.
\* ------------------------------------------------------------------------
SameElements(a, b) ==
    /\ Len(a) = Len(b)
    /\ \A i \in 1..Len(a) : Occurrences(a, a[i]) = Occurrences(b, a[i])

C28_ExpansionOrderIndependent ==
    /\ pc = "max_value" =>
          SameElements(current_states, Generation(input_index, NumPaired))
    /\ MaxValueReturned =>
          LET final == Generation(Len(inputs), NumPaired)
          IN  IF Len(final) = 0
              THEN max_value_result = Raised("ValueError")
              ELSE /\ max_value_result.kind = "value"
                   /\ IsMaximumOf(max_value_result.value, ValuesOf(final))

\* max_value returned the maximum from a final generation listed in another
\* order than that of the code, in which the maximum comes neither first nor
\* last.
C28_Witness ==
    /\ MaxValueReturned
    /\ max_value_result.kind = "value"
    /\ Len(current_states) >= 3
    /\ current_states # Generation(Len(inputs), NumPaired)
    /\ ApplyValue(value_function, current_states[1]) # max_value_result.value
    /\ ApplyValue(value_function, current_states[Len(current_states)])
          # max_value_result.value

\* ------------------------------------------------------------------------
\* C29.  Tie-breaking in sequential max_value_solution: when several records
\* of the final generation share the maximum value, the one selected is the
\* earliest in generation order (every generation lists all results of
\* transition 0 in the order of the previous generation, then all results of
\* transition 1, and so on), and the returned solution is the one built along
\* that record's path.
\* ------------------------------------------------------------------------

\* The <<initial state's position, path>> pairs of generation i, in
\* generation order.
AcceptedPaths(i, K) ==
    SelectSeq(AllPaths(i, K), LAMBDA jp : ReplayAccepted(initial_states[jp[1]], jp[2]))

ValueOfPath(jp) == ApplyValue(value_function, ReplayState(initial_states[jp[1]], jp[2]))

\* The paths of the final generation, in generation order.
FinalPaths == AcceptedPaths(Len(inputs), NumPaired)

\* The values of the states the paths end in, in the same order.
ValuesOfPaths(paths) == [m \in 1..Len(paths) |-> ValueOfPath(paths[m])] \o <<>>

\* The positions of the maximal values of a list.
MaximalPositions(vals) ==
    {m \in 1..Len(vals) : \A n \in 1..Len(vals) : ~ValueLess(vals[m], vals[n])}

Earliest(positions) == CHOOSE m \in positions : \A n \in positions : m <= n

Latest(positions) == CHOOSE m \in positions : \A n \in positions : n <= m

\* The transition indices along a chain of records.
PathOfChain(chain) ==
    [t \in 1..(Len(chain) - 1) |-> records[chain[t + 1]].transition_index]

\* max_value_solution has selected its best record.
BestSelected ==
    \/ pc \in {"path", "construct"}
    \/ max_value_solution_result.kind \in {"value", "IndexError"}

C30_SequentialEnginesAgree ==
    MaxValueReturned =>
      /\ (pc = "max_value_solution" /\ input_index = Len(inputs)) =>
            StatesOfRecords(records, current_state_records) = current_states
      /\ MaxValueSolutionReturned =>
            /\ max_value_solution_result.kind = "ValueError"
                  <=> max_value_result.kind = "ValueError"
            /\ max_value_solution_result.kind = "value" =>
                  /\ max_value_result.kind = "value"
                  /\ max_value_solution_result.best_final_state_value
                       = max_value_result.value

\* Both calls returned, after two inputs through two transition functions
\* whose filters rejected some pair and accepted another, a value that is
\* not the value of the first final state.
C30_Witness ==
    /\ max_value_result.kind = "value"
    /\ max_value_solution_result.kind = "value"
    /\ filter_functions # NoneFilters
    /\ NumPaired = 2
    /\ Len(inputs) = 2
    /\ Len(current_states) >= 2
    /\ Len(current_states) < 4 * Len(initial_states)
    /\ max_value_solution_result.best_final_state_value
          # ApplyValue(value_function, current_states[1])

====
